---- MODULE Spec2Model ----
(***************************************************************************)
(* Model of the two pipeline scripts .github/workflows/ai_writer.py and    *)
(* .github/workflows/ai-writer.py: policy resolution, file collection,     *)
(* byte budget, the single external request, response decoding and the     *)
(* change-application loop.                                                *)
(*                                                                         *)
(* Text is modelled at character level: a string is a sequence of          *)
(* one-character strings ("CR" and "LF" stand for \r and \n).  A raw       *)
(* response is modelled at token level (see the decoder section).          *)
(***************************************************************************)
EXTENDS Integers, Sequences, FiniteSets, TLC

(* ---------------------------------------------------------------------- *)
(* Bounds                                                                  *)
(* ---------------------------------------------------------------------- *)
MaxChanges == 2

(* ---------------------------------------------------------------------- *)
(* Generic string helpers (Python str methods)                             *)
(* ---------------------------------------------------------------------- *)
RECURSIVE SeqConcat(_)
SeqConcat(ss) ==
  IF ss = <<>> THEN <<>> ELSE Head(ss) \o SeqConcat(Tail(ss))

StartsWith(s, pre) ==
  /\ Len(pre) <= Len(s)
  /\ SubSeq(s, 1, Len(pre)) = pre

IsSpace(c) == c \in {" ", "LF", "CR"}

RECURSIVE LStrip(_)
LStrip(s) ==
  IF s # <<>> /\ IsSpace(Head(s)) THEN LStrip(Tail(s)) ELSE s

RECURSIVE RStrip(_)
RStrip(s) ==
  IF s # <<>> /\ IsSpace(s[Len(s)]) THEN RStrip(SubSeq(s, 1, Len(s) - 1)) ELSE s

Strip(s) == RStrip(LStrip(s))

\* g.rstrip("*")
RECURSIVE RStripStar(_)
RStripStar(s) ==
  IF s # <<>> /\ s[Len(s)] = "*" THEN RStripStar(SubSeq(s, 1, Len(s) - 1)) ELSE s

\* s.split(sep) for a one-character separator: always at least one piece
RECURSIVE SplitAcc(_, _, _)
SplitAcc(s, sep, cur) ==
  IF s = <<>> THEN <<cur>>
  ELSE IF Head(s) = sep THEN <<cur>> \o SplitAcc(Tail(s), sep, <<>>)
  ELSE SplitAcc(Tail(s), sep, Append(cur, Head(s)))

Split(s, sep) == SplitAcc(s, sep, <<>>)

RECURSIVE Join(_, _)
Join(parts, sep) ==
  IF parts = <<>> THEN <<>>
  ELSE IF Len(parts) = 1 THEN parts[1]
  ELSE parts[1] \o <<sep>> \o Join(Tail(parts), sep)

LowerChar(c) ==
  CASE c = "P" -> "p" [] c = "N" -> "n" [] c = "G" -> "g"
    [] c = "M" -> "m" [] c = "D" -> "d" [] OTHER -> c

Lower(s) == [i \in 1..Len(s) |-> LowerChar(s[i])]

\* index of the last occurrence of c in s, 0 when there is none (rfind + 1)
RECURSIVE RFind(_, _)
RFind(s, c) ==
  IF s = <<>> THEN 0
  ELSE IF s[Len(s)] = c THEN Len(s)
  ELSE RFind(SubSeq(s, 1, Len(s) - 1), c)

(* ---------------------------------------------------------------------- *)
(* ai_writer.py:6 / ai-writer.py:6  PATHS                                  *)
(* ---------------------------------------------------------------------- *)
RECURSIVE StripNonBlank(_)
StripNonBlank(ps) ==
  IF ps = <<>> THEN <<>>
  ELSE IF Strip(Head(ps)) # <<>>
       THEN <<Strip(Head(ps))>> \o StripNonBlank(Tail(ps))
       ELSE StripNonBlank(Tail(ps))

ParsePaths(input) == StripNonBlank(Split(input, ","))

(* ---------------------------------------------------------------------- *)
(* pathlib: parts, name, suffix, as_posix, match                           *)
(* ---------------------------------------------------------------------- *)
\* pathlib drops empty and "." segments and keeps ".." segments
RECURSIVE DropDots(_)
DropDots(segs) ==
  IF segs = <<>> THEN <<>>
  ELSE IF Head(segs) = <<>> \/ Head(segs) = <<".">> THEN DropDots(Tail(segs))
  ELSE <<Head(segs)>> \o DropDots(Tail(segs))

PathParts(s) == DropDots(Split(s, "/"))

AsPosix(parts) == Join(parts, "/")

PathName(parts) == IF parts = <<>> THEN <<>> ELSE parts[Len(parts)]

PathParent(parts) ==
  IF parts = <<>> THEN <<>> ELSE SubSeq(parts, 1, Len(parts) - 1)

PathSuffix(parts) ==
  LET name == PathName(parts)
      i    == RFind(name, ".")
  IN IF 1 < i /\ i < Len(name) THEN SubSeq(name, i, Len(name)) ELSE <<>>

\* fnmatch.fnmatchcase restricted to the wildcards * and ?
RECURSIVE FnMatch(_, _)
FnMatch(pat, s) ==
  IF pat = <<>> THEN s = <<>>
  ELSE IF Head(pat) = "*"
       THEN FnMatch(Tail(pat), s) \/ (s # <<>> /\ FnMatch(pat, Tail(s)))
  ELSE /\ s # <<>>
       /\ (Head(pat) = "?" \/ Head(pat) = Head(s))
       /\ FnMatch(Tail(pat), Tail(s))

\* PurePath.match with a relative pattern: segments are matched from the right
RECURSIVE MatchFromRight(_, _)
MatchFromRight(pparts, gparts) ==
  IF gparts = <<>> THEN TRUE
  ELSE /\ pparts # <<>>
       /\ FnMatch(gparts[Len(gparts)], pparts[Len(pparts)])
       /\ MatchFromRight(PathParent(pparts), PathParent(gparts))

PathMatch(pparts, g) ==
  LET gparts == PathParts(g)
  IN /\ gparts # <<>>
     /\ Len(gparts) <= Len(pparts)
     /\ MatchFromRight(pparts, gparts)

(* ---------------------------------------------------------------------- *)
(* glob.glob(g, recursive=True): the pattern rule                          *)
(* ---------------------------------------------------------------------- *)
HasMagic(seg) == \E i \in 1..Len(seg) : seg[i] \in {"*", "?", "["}

IsHidden(seg) == seg # <<>> /\ seg[1] = "."

\* one pattern segment against one directory entry
GlobSegMatch(pat, name) ==
  IF HasMagic(pat)
  THEN /\ name \notin {<<".">>, <<".", ".">>}
       /\ (IsHidden(pat) \/ ~IsHidden(name))
       /\ FnMatch(pat, name)
  ELSE pat = name

RECURSIVE GlobPartsMatch(_, _)
GlobPartsMatch(gparts, pparts) ==
  IF gparts = <<>> THEN pparts = <<>>
  ELSE IF Head(gparts) = <<"*", "*">>
       THEN \/ GlobPartsMatch(Tail(gparts), pparts)
            \/ /\ pparts # <<>>
               /\ ~IsHidden(Head(pparts))
               /\ GlobPartsMatch(gparts, Tail(pparts))
  ELSE /\ pparts # <<>>
       /\ GlobSegMatch(Head(gparts), Head(pparts))
       /\ GlobPartsMatch(Tail(gparts), Tail(pparts))

\* does the pattern g select the path named by parts, were it on disk
GlobMatch(g, parts) == GlobPartsMatch(PathParts(g), parts)

(* ---------------------------------------------------------------------- *)
(* The filesystem: regular files with their content, and directories.      *)
(* Both are keyed by the resolved location, a sequence of segments; the    *)
(* working directory is <<>> and always exists.                            *)
(* ---------------------------------------------------------------------- *)
IsDirAt(at, dirs) == at = <<>> \/ at \in dirs

\* The kernel's path walk: every location stepped from must be a directory.
\* err is "ok", "noent" (a component is missing) or "notdir" (a component
\* is a regular file).
RECURSIVE ResolveFrom(_, _, _, _)
ResolveFrom(cur, parts, files, dirs) ==
  IF parts = <<>> THEN [err |-> "ok", at |-> cur]
  ELSE IF ~IsDirAt(cur, dirs)
       THEN [err |-> IF cur \in DOMAIN files THEN "notdir" ELSE "noent", at |-> cur]
  ELSE ResolveFrom(IF Head(parts) = <<".", ".">> THEN PathParent(cur)
                   ELSE Append(cur, Head(parts)),
                   Tail(parts), files, dirs)

Locate(parts, files, dirs) == ResolveFrom(<<>>, parts, files, dirs)

\* Path.exists()
PathExists(parts, files, dirs) ==
  LET loc == Locate(parts, files, dirs)
  IN /\ loc.err = "ok"
     /\ (IsDirAt(loc.at, dirs) \/ loc.at \in DOMAIN files)

\* Path.is_file()
PathIsFile(parts, files, dirs) ==
  LET loc == Locate(parts, files, dirs)
  IN loc.err = "ok" /\ loc.at \in DOMAIN files

\* Path.stat().st_size of a regular file (one byte per character)
StatSize(parts, files, dirs) == Len(files[Locate(parts, files, dirs).at])

\* os.mkdir(q): err is "ok", "exists_dir", "exists_file", "noent" or "notdir"
OsMkdir(q, files, dirs) ==
  IF q = <<>> THEN [err |-> "exists_dir", dirs |-> dirs]
  ELSE
    LET loc == Locate(PathParent(q), files, dirs)
        tgt == IF PathName(q) = <<".", ".">> THEN PathParent(loc.at)
               ELSE Append(loc.at, PathName(q))
    IN IF loc.err # "ok" THEN [err |-> loc.err, dirs |-> dirs]
       ELSE IF ~IsDirAt(loc.at, dirs)
            THEN [err |-> IF loc.at \in DOMAIN files THEN "notdir" ELSE "noent",
                  dirs |-> dirs]
       ELSE IF IsDirAt(tgt, dirs) THEN [err |-> "exists_dir", dirs |-> dirs]
       ELSE IF tgt \in DOMAIN files THEN [err |-> "exists_file", dirs |-> dirs]
       ELSE [err |-> "ok", dirs |-> dirs \cup {tgt}]

\* Path.mkdir(parents=True, exist_ok=True): ok is FALSE when it raises
RECURSIVE MkdirParents(_, _, _)
MkdirParents(q, files, dirs) ==
  LET r == OsMkdir(q, files, dirs)
  IN IF r.err \in {"ok", "exists_dir"} THEN [ok |-> TRUE, dirs |-> r.dirs]
     ELSE IF r.err = "noent" /\ q # <<>>
          THEN LET up == MkdirParents(PathParent(q), files, dirs)
               IN IF ~up.ok THEN up
                  ELSE LET r2 == OsMkdir(q, files, up.dirs)
                       IN [ok |-> r2.err \in {"ok", "exists_dir"}, dirs |-> r2.dirs]
     ELSE [ok |-> FALSE, dirs |-> dirs]

\* Path.write_text(content): ok is FALSE when open() raises
WriteText(parts, content, files, dirs) ==
  LET loc == Locate(parts, files, dirs)
  IN IF parts = <<>> \/ loc.err # "ok" \/ IsDirAt(loc.at, dirs)
     THEN [ok |-> FALSE, files |-> files]
     ELSE IF ~IsDirAt(PathParent(loc.at), dirs)
          THEN [ok |-> FALSE, files |-> files]
     ELSE [ok |-> TRUE,
           files |-> [x \in DOMAIN files \cup {loc.at} |->
                        IF x = loc.at THEN content ELSE files[x]]]

(* ---------------------------------------------------------------------- *)
(* read_files                                                              *)
(* ---------------------------------------------------------------------- *)
BinaryExts ==
  { <<".", "p", "n", "g">>, <<".", "j", "p", "g">>, <<".", "j", "p", "e", "g">>,
    <<".", "g", "i", "f">>, <<".", "p", "d", "f">>, <<".", "z", "i", "p">>,
    <<".", "t", "a", "r">>, <<".", "g", "z">> }

ReservedPrefix == <<".", "a", "i", "-">>

\* the filters of read_files that do not depend on the disk
Qualifies(parts) ==
  /\ Lower(PathSuffix(parts)) \notin BinaryExts
  /\ ~StartsWith(PathName(parts), ReservedPrefix)

\* glob.glob(g, recursive=True) for patterns without ".." segments: the
\* entries on disk the pattern selects
GlobGlob(g, files, dirs) ==
  { p \in DOMAIN files \cup dirs : GlobMatch(g, p) }

\* every ordering of a finite set (directory listing order is unspecified)
RECURSIVE Perms(_)
Perms(S) ==
  IF S = {} THEN { <<>> }
  ELSE UNION { { <<x>> \o t : t \in Perms(S \ {x}) } : x \in S }

SeqRange(s) == { s[i] : i \in 1..Len(s) }

\* the possible results of read_files, one per listing order
RECURSIVE ReadFilesFrom(_, _, _, _)
ReadFilesFrom(globs, acc, files, dirs) ==
  IF globs = <<>> THEN { acc }
  ELSE LET new == { p \in GlobGlob(Head(globs), files, dirs) :
                      /\ PathIsFile(p, files, dirs)
                      /\ Qualifies(p)
                      /\ p \notin SeqRange(acc) }
       IN UNION { ReadFilesFrom(Tail(globs), acc \o t, files, dirs) : t \in Perms(new) }

ReadFiles(globs, files, dirs) == ReadFilesFrom(globs, <<>>, files, dirs)

RECURSIVE TotalBytes(_, _, _)
TotalBytes(fl, files, dirs) ==
  IF fl = <<>> THEN 0
  ELSE StatSize(Head(fl), files, dirs) + TotalBytes(Tail(fl), files, dirs)

(* ---------------------------------------------------------------------- *)
(* Response text.  A raw response is a sequence of tokens [t, v]:          *)
(*   "{" "}" "[" "]" ":" ","   JSON punctuation, one character each        *)
(*   "str"   a double-quoted JSON string with value v                      *)
(*   "num"   a JSON number with digits v                                   *)
(*   "ws"    whitespace                                                    *)
(*   "word"  a run of prose characters, none of them a brace               *)
(*   "fence" a markdown code fence                                         *)
(* Brace characters of the text are exactly the "{" and "}" tokens.        *)
(* ---------------------------------------------------------------------- *)
Tok(t)     == [t |-> t, v |-> <<>>]
TokStr(v)  == [t |-> "str", v |-> v]
TokNum(v)  == [t |-> "num", v |-> v]

\* JSON values as Python objects: [k, v] with k the Python type
PyNone     == [k |-> "none", v |-> <<>>]
PyStr(v)   == [k |-> "str", v |-> v]
PyNum(v)   == [k |-> "num", v |-> v]
PyList(v)  == [k |-> "list", v |-> v]
PyDict(v)  == [k |-> "dict", v |-> v]

EmptyMap == [x \in {} |-> PyNone]

K_changes == <<"c", "h", "a", "n", "g", "e", "s">>
K_path    == <<"p", "a", "t", "h">>
K_content == <<"c", "o", "n", "t", "e", "n", "t">>

RECURSIVE SkipWs(_)
SkipWs(toks) ==
  IF toks # <<>> /\ Head(toks).t = "ws" THEN SkipWs(Tail(toks)) ELSE toks

\* out_text.strip()
RECURSIVE RStripWs(_)
RStripWs(toks) ==
  IF toks # <<>> /\ toks[Len(toks)].t = "ws"
  THEN RStripWs(SubSeq(toks, 1, Len(toks) - 1)) ELSE toks

StripText(toks) == RStripWs(SkipWs(toks))

ParseFail == [ok |-> FALSE, val |-> PyNone, rest |-> <<>>]

\* json decoder: one value at the head of toks; rest is what follows it
RECURSIVE ParseValue(_), ParseElems(_, _), ParseMembers(_, _)
ParseValue(toks0) ==
  LET toks == SkipWs(toks0)
  IN IF toks = <<>> THEN ParseFail
     ELSE LET h == Head(toks)
              r == Tail(toks)
          IN CASE h.t = "str" -> [ok |-> TRUE, val |-> PyStr(h.v), rest |-> r]
               [] h.t = "num" -> [ok |-> TRUE, val |-> PyNum(h.v), rest |-> r]
               [] h.t = "["   ->
                    LET r1 == SkipWs(r)
                    IN IF r1 # <<>> /\ Head(r1).t = "]"
                       THEN [ok |-> TRUE, val |-> PyList(<<>>), rest |-> Tail(r1)]
                       ELSE ParseElems(r1, <<>>)
               [] h.t = "{"   ->
                    LET r1 == SkipWs(r)
                    IN IF r1 # <<>> /\ Head(r1).t = "}"
                       THEN [ok |-> TRUE, val |-> PyDict(EmptyMap), rest |-> Tail(r1)]
                       ELSE ParseMembers(r1, EmptyMap)
               [] OTHER -> ParseFail

\* elements of an array after "[" or ",": value then "," or "]"
ParseElems(toks, acc) ==
  LET e == ParseValue(toks)
  IN IF ~e.ok THEN ParseFail
     ELSE LET r == SkipWs(e.rest)
          IN IF r = <<>> THEN ParseFail
             ELSE IF Head(r).t = "]"
                  THEN [ok |-> TRUE, val |-> PyList(Append(acc, e.val)), rest |-> Tail(r)]
             ELSE IF Head(r).t = ","
                  THEN ParseElems(Tail(r), Append(acc, e.val))
             ELSE ParseFail

\* members of an object after "{" or ",": "key" : value then "," or "}"
\* (a repeated key keeps the last value)
ParseMembers(toks0, acc) ==
  LET toks == SkipWs(toks0)
  IN IF toks = <<>> \/ Head(toks).t # "str" THEN ParseFail
     ELSE LET key == Head(toks).v
              r0  == SkipWs(Tail(toks))
          IN IF r0 = <<>> \/ Head(r0).t # ":" THEN ParseFail
             ELSE LET e == ParseValue(Tail(r0))
                  IN IF ~e.ok THEN ParseFail
                     ELSE LET r   == SkipWs(e.rest)
                              new == (key :> e.val) @@ acc
                          IN IF r = <<>> THEN ParseFail
                             ELSE IF Head(r).t = "}"
                                  THEN [ok |-> TRUE, val |-> PyDict(new), rest |-> Tail(r)]
                             ELSE IF Head(r).t = ","
                                  THEN ParseMembers(Tail(r), new)
                             ELSE ParseFail

\* json.loads(text): ok is FALSE when it raises
JsonLoads(toks) ==
  LET r == ParseValue(toks)
  IN IF r.ok /\ SkipWs(r.rest) = <<>> THEN [ok |-> TRUE, val |-> r.val]
     ELSE [ok |-> FALSE, val |-> PyNone]

\* re.search(r"\{.*\}", text, flags=re.DOTALL): from the first "{" to the
\* last "}" of the text; found is FALSE when there is no match
FirstIdx(toks, t) ==
  LET S == { i \in 1..Len(toks) : toks[i].t = t }
  IN IF S = {} THEN 0 ELSE CHOOSE i \in S : \A j \in S : i <= j

LastIdx(toks, t) ==
  LET S == { i \in 1..Len(toks) : toks[i].t = t }
  IN IF S = {} THEN 0 ELSE CHOOSE i \in S : \A j \in S : j <= i

BraceSpan(toks) ==
  LET i == FirstIdx(toks, "{")
      j == LastIdx(toks, "}")
  IN IF i > 0 /\ j > i THEN [found |-> TRUE, text |-> SubSeq(toks, i, j)]
     ELSE [found |-> FALSE, text |-> <<>>]

\* ai_writer.py:95-111 to_text; str(resp) is the object's repr, prose
ReprText == << [t |-> "word", v |-> <<>>] >>

ToText(resp) ==
  IF resp.output_text # <<>> THEN resp.output_text
  ELSE LET parts == SelectSeq(resp.parts, LAMBDA c : c # <<>>)
       IN IF parts # <<>> THEN SeqConcat(parts) ELSE ReprText

\* ai_writer.py:117-126: strict parse, then the brace span
DecodeData(out_text) ==
  LET strict == JsonLoads(out_text)
      m      == BraceSpan(out_text)
      sub    == JsonLoads(m.text)
  IN IF strict.ok THEN strict.val
     ELSE IF m.found /\ sub.ok THEN sub.val
     ELSE PyNone

\* ai_writer.py:128
ShapeRejected(data) ==
  data.k # "dict" \/ K_changes \notin DOMAIN data.v

\* the isinstance check on changes left out
IsListUnchecked(changes) == TRUE

\* ai_writer.py:133
IsList(changes) == changes.k = "list"

\* dict.get(key, default)
DictGet(d, key, default) ==
  IF key \in DOMAIN d.v THEN d.v[key] ELSE default

(* ---------------------------------------------------------------------- *)
(* Allowlist test of the apply loop and line-ending tidy                   *)
(* ---------------------------------------------------------------------- *)
\* ai_writer.py:138-142 / ai-writer.py:112
AllowedByGlobs(parts, globs) ==
  \E i \in 1..Len(globs) :
     \/ PathMatch(parts, globs[i])
     \/ StartsWith(AsPosix(parts), RStripStar(globs[i]))

\* content.replace("\r\n", "\n")
RECURSIVE ReplaceCRLF(_)
ReplaceCRLF(s) ==
  IF s = <<>> THEN <<>>
  ELSE IF Len(s) >= 2 /\ s[1] = "CR" /\ s[2] = "LF"
       THEN <<"LF">> \o ReplaceCRLF(SubSeq(s, 3, Len(s)))
  ELSE <<Head(s)>> \o ReplaceCRLF(Tail(s))

(* ---------------------------------------------------------------------- *)
(* One iteration of the apply loop.  res is "applied", "skip" (continue)   *)
(* or "raise" (an exception leaves the loop and ends the process).         *)
(* ---------------------------------------------------------------------- *)
ApplyResult(res, parts, files, dirs) ==
  [res |-> res, p |-> parts, files |-> files, dirs |-> dirs]

\* mkdir of the parent when the target is missing, then write_text
MkdirAndWrite(parts, text, files, dirs) ==
  LET mk == IF PathExists(parts, files, dirs) THEN [ok |-> TRUE, dirs |-> dirs]
            ELSE MkdirParents(PathParent(parts), files, dirs)
      w  == WriteText(parts, text, files, mk.dirs)
  IN IF ~mk.ok THEN ApplyResult("raise", parts, files, mk.dirs)
     ELSE IF ~w.ok THEN ApplyResult("raise", parts, files, mk.dirs)
     ELSE ApplyResult("applied", parts, w.files, mk.dirs)

\* ai_writer.py:145-157
ApplyOneUnderscore(ch, globs, files, dirs) ==
  IF ch.k # "dict" THEN ApplyResult("raise", <<>>, files, dirs)
  ELSE
    LET path    == DictGet(ch, K_path, PyNone)
        content == DictGet(ch, K_content, PyNone)
        parts   == PathParts(path.v)
    IN IF path.k # "str" \/ content.k # "str"
       THEN ApplyResult("skip", <<>>, files, dirs)
       ELSE IF ~AllowedByGlobs(parts, globs)
            THEN ApplyResult("skip", parts, files, dirs)
       ELSE MkdirAndWrite(parts, ReplaceCRLF(content.v), files, dirs)

\* policy.get("allow_creates", True)
AllowCreates(pol) ==
  IF pol.exists /\ pol.has_creates THEN pol.allow_creates ELSE TRUE

\* ai-writer.py:109-122
ApplyOneDash(ch, globs, pol, files, dirs) ==
  IF ch.k # "dict" \/ K_path \notin DOMAIN ch.v \/ ch.v[K_path].k # "str"
  THEN ApplyResult("raise", <<>>, files, dirs)
  ELSE
    LET parts  == PathParts(ch.v[K_path].v)
        exists == PathExists(parts, files, dirs)
        mk     == IF exists THEN [ok |-> TRUE, dirs |-> dirs]
                  ELSE MkdirParents(PathParent(parts), files, dirs)
    IN IF ~AllowedByGlobs(parts, globs)
       THEN ApplyResult("skip", parts, files, dirs)
       ELSE IF ~exists /\ ~AllowCreates(pol)
            THEN ApplyResult("skip", parts, files, dirs)
       ELSE IF ~mk.ok
            THEN ApplyResult("raise", parts, files, mk.dirs)
       ELSE IF K_content \notin DOMAIN ch.v \/ ch.v[K_content].k # "str"
            THEN ApplyResult("raise", parts, files, mk.dirs)
       ELSE LET w == WriteText(parts, ReplaceCRLF(ch.v[K_content].v), files, mk.dirs)
            IN IF ~w.ok THEN ApplyResult("raise", parts, files, mk.dirs)
               ELSE ApplyResult("applied", parts, w.files, mk.dirs)

\* "for ch in changes": a list yields its elements, a str its characters,
\* a dict its keys; anything else is not iterable
Iterable(changes) == changes.k \in {"list", "str", "dict"}

IterItems(changes) ==
  CASE changes.k = "list" -> changes.v
    [] changes.k = "str"  -> [i \in 1..Len(changes.v) |-> PyStr(<<changes.v[i]>>)]
    [] changes.k = "dict" ->
         LET ks == CHOOSE q \in Perms(DOMAIN changes.v) : TRUE
         IN [i \in 1..Len(ks) |-> PyStr(ks[i])]
    [] OTHER -> <<>>

(* ---------------------------------------------------------------------- *)
(* Budget and credentials                                                  *)
(* ---------------------------------------------------------------------- *)
\* ai_writer.py:7 / ai-writer.py:7
DefaultMaxBytes == 400000

\* the limit compared against is the built-in default, whatever the overlay says
BudgetIgnoresOverlay(total, limit) == total > DefaultMaxBytes

\* ai_writer.py:44 / ai-writer.py:40
BudgetExceeded(total, limit) == total > limit

\* ai_writer.py:69-70
HasApiKey(e) == e.OPENAI_API_KEY \/ e.OPEN_AI_KEY

\* ai_writer.py:14-18 / ai-writer.py:14-18
ResolveMaxBytes(pol) ==
  IF pol.exists /\ pol.has_max THEN pol.max_bytes ELSE DefaultMaxBytes

ResolveGlobs(pol, input) ==
  IF pol.exists /\ pol.has_globs THEN pol.allow_globs ELSE ParsePaths(input)

(* ---------------------------------------------------------------------- *)
(* Inputs of a run: the repository on disk, the environment, the policy    *)
(* overlay, and what the service may answer                                *)
(* ---------------------------------------------------------------------- *)
S_d        == <<"d">>
S_s        == <<"s">>
S_a_md     == <<"a", ".", "m", "d">>
S_n_md     == <<"n", ".", "m", "d">>
S_b_md     == <<"b", ".", "m", "d">>
S_k_md     == <<"k", ".", "m", "d">>
S_r_md     == <<"r", ".", "m", "d">>
S_i_png    == <<"i", ".", "p", "n", "g">>
S_policy   == <<".", "a", "i", "-", "p", "o", "l", "i", "c", "y", ".", "y", "m", "l">>

\* ai_writer.py:12 / ai-writer.py:12
PolicyPath == << S_policy >>

G_d_md     == <<"d", "/", "*", ".", "m", "d">>
G_d_any    == <<"d", "/", "*">>
G_md       == <<"*", ".", "m", "d">>
G_any      == <<"*">>

InputPaths ==
  { G_d_md,
    <<" ">> \o G_d_any \o <<" ", ",", " ">> \o G_md,
    <<" ", ",", " ">>,
    G_any }

NoPolicy ==
  [exists |-> FALSE, has_max |-> FALSE, max_bytes |-> 0,
   has_globs |-> FALSE, allow_globs |-> <<>>,
   has_creates |-> FALSE, allow_creates |-> TRUE]

Policies ==
  { NoPolicy,
    [NoPolicy EXCEPT !.exists = TRUE, !.has_max = TRUE, !.max_bytes = 1],
    [NoPolicy EXCEPT !.exists = TRUE, !.has_max = TRUE, !.max_bytes = 2,
                     !.has_creates = TRUE, !.allow_creates = FALSE],
    [NoPolicy EXCEPT !.exists = TRUE, !.has_globs = TRUE, !.allow_globs = << G_d_any >>,
                     !.has_creates = TRUE, !.allow_creates = TRUE] }

Envs ==
  { [INPUT_PATHS |-> i, OPENAI_API_KEY |-> k[1], OPEN_AI_KEY |-> k[2]] :
      i \in InputPaths, k \in { <<TRUE, FALSE>>, <<FALSE, TRUE>>, <<FALSE, FALSE>> } }

InitDirs == { <<S_d>>, <<S_s>> }

InitFiles(pol) ==
  LET base == ( <<S_d, S_a_md>>  :> <<"H", "i">> ) @@
              ( <<S_d, S_i_png>> :> <<"#">> ) @@
              ( <<S_s, S_k_md>>  :> <<"K">> ) @@
              ( <<S_r_md>>       :> <<"R", "d">> )
  IN IF pol.exists THEN (PolicyPath :> <<"#">>) @@ base ELSE base

\* paths the service may name
ReqPaths ==
  { Join(<<S_d, S_a_md>>, "/"),
    Join(<<S_d, S_n_md>>, "/"),
    Join(<<S_d, <<".", ".">>, S_s, S_k_md>>, "/"),
    S_policy,
    Join(<<S_d, S_i_png>>, "/"),
    Join(<<<<"n">>, S_b_md>>, "/") }

\* contents the service may give
PlainContent == <<"x">>
CrContents ==
  { <<"a", "CR", "LF", "b", "CR", "c", "CR", "CR", "LF">> }

\* entries of the changes array: well-formed ones and malformed ones
Entries ==
    { [form |-> "ok", path |-> p, content |-> PlainContent] : p \in ReqPaths }
  \cup
    { [form |-> "ok", path |-> Join(<<S_d, S_a_md>>, "/"), content |-> c] : c \in CrContents }
  \cup
    { [form |-> f, path |-> Join(<<S_d, S_a_md>>, "/"), content |-> PlainContent] :
        f \in {"nopath", "numcontent", "scalar"} }

EntryToks(e) ==
  LET kp == << TokStr(K_path), Tok(":") >>
      kc == << TokStr(K_content), Tok(":") >>
      sp == << TokStr(e.path) >>
      sc == << TokStr(e.content) >>
      n  == << TokNum(<<"1">>) >>
  IN CASE e.form = "ok"         -> <<Tok("{")>> \o kp \o sp \o <<Tok(",")>> \o kc \o sc \o <<Tok("}")>>
       [] e.form = "nopath"     -> <<Tok("{")>> \o kc \o sc \o <<Tok("}")>>
       [] e.form = "numcontent" -> <<Tok("{")>> \o kp \o sp \o <<Tok(",")>> \o kc \o n \o <<Tok("}")>>
       [] OTHER                 -> n

RECURSIVE EntriesToks(_)
EntriesToks(l) ==
  IF l = <<>> THEN <<>>
  ELSE IF Len(l) = 1 THEN EntryToks(l[1])
  ELSE EntryToks(l[1]) \o <<Tok(",")>> \o EntriesToks(Tail(l))

\* the text {"changes":[ ... ]}
ChangesToks(l) ==
  << Tok("{"), TokStr(K_changes), Tok(":"), Tok("[") >> \o EntriesToks(l)
     \o << Tok("]"), Tok("}") >>

ChangeLists == UNION { [1..n -> Entries] : n \in 0..MaxChanges }

Word == [t |-> "word", v |-> <<>>]

\* prose around the JSON object: none, plain, fenced, and prose that has
\* braces of its own before or after the object
NoFrame     == [pre |-> <<>>, post |-> <<>>]
PlainFrame  == [pre |-> <<Word, Tok("ws")>>, post |-> <<Tok("ws"), Word>>]
FencedFrame == [pre |-> <<Word, Tok("ws"), Tok("fence"), Tok("ws")>>,
                post |-> <<Tok("ws"), Tok("fence"), Tok("ws"), Word>>]
BracePre    == [pre |-> <<Word, Tok("{"), Word, Tok("}"), Tok("ws")>>, post |-> <<>>]
BracePost   == [pre |-> <<Tok("ws")>>, post |-> <<Tok("ws"), Word, Tok("{"), Word, Tok("}")>>]

Frames == { NoFrame, PlainFrame, FencedFrame, BracePre, BracePost }

\* texts that are not an object with a changes array
OddBodies ==
  { <<>>,
    << Tok("["), Tok("]") >>,
    << Tok("{"), Tok("}") >>,
    << Tok("{"), TokStr(K_changes), Tok(":"), TokNum(<<"1">>), Tok("}") >>,
    << Tok("{"), TokStr(K_changes), Tok(":"), Tok("[") >> }

\* what the service may be observed to send: the object alone for every
\* change list, framed for the lists of at most one entry, and odd texts;
\* as output_text, or as content blocks for the framed ones
Sendable ==
    { [pre |-> <<>>, body |-> ChangesToks(l), post |-> <<>>, blocks |-> FALSE] :
        l \in ChangeLists }
  \cup
    { [pre |-> f.pre, body |-> ChangesToks(l), post |-> f.post, blocks |-> b] :
        l \in { m \in ChangeLists : Len(m) <= 1 }, f \in Frames \ {NoFrame},
        b \in BOOLEAN }
  \cup
    { [pre |-> f.pre, body |-> o, post |-> f.post, blocks |-> FALSE] :
        o \in OddBodies, f \in {NoFrame, PlainFrame} }

\* the response object for a sent text
ResponseOf(m) ==
  LET text == m.pre \o m.body \o m.post
  IN IF m.blocks
     THEN [output_text |-> <<>>, parts |-> << m.pre, m.body \o m.post >>]
     ELSE [output_text |-> text, parts |-> <<>>]

NoResponse == [output_text |-> <<>>, parts |-> <<>>]
NotSent    == [pre |-> <<>>, body |-> <<>>, post |-> <<>>, blocks |-> FALSE]

(* ---------------------------------------------------------------------- *)
(* The run                                                                 *)
(* ---------------------------------------------------------------------- *)
VARIABLES
  variant,           \* "ai_writer" or "ai-writer": which script runs
  env,               \* os.environ
  policy,            \* the parsed overlay, NoPolicy when the file is absent
  fsFiles, fsDirs,   \* the disk
  pc,                \* position in the script
  ALLOW_MAX_BYTES, ALLOW_FILE_GLOBS,
  files, total_bytes,
  calls,             \* number of client.responses.create calls issued
  response, out_text, data, changes,
  idx, applied,
  exitStatus,        \* -1 while running
  raised,            \* an exception escaped
  exitAt,            \* the position the process ended at
  fsFiles0, fsDirs0, \* history: the disk before the run
  sent,              \* history: how the response text was composed
  written            \* history: <<path parts, location, existed before>> per write

vars ==
  << variant, env, policy, fsFiles, fsDirs, pc, ALLOW_MAX_BYTES, ALLOW_FILE_GLOBS,
     files, total_bytes, calls, response, out_text, data, changes, idx, applied,
     exitStatus, raised, exitAt, fsFiles0, fsDirs0, sent, written >>

Underscore == "ai_writer"
Dash       == "ai-writer"

Init ==
  /\ variant \in {Underscore, Dash}
  /\ env \in Envs
  /\ policy \in Policies
  /\ fsFiles = InitFiles(policy)
  /\ fsDirs = InitDirs
  /\ fsFiles0 = fsFiles
  /\ fsDirs0 = fsDirs
  /\ pc = "policy"
  /\ ALLOW_MAX_BYTES = DefaultMaxBytes
  /\ ALLOW_FILE_GLOBS = <<>>
  /\ files = <<>>
  /\ total_bytes = 0
  /\ calls = 0
  /\ response = NoResponse
  /\ out_text = <<>>
  /\ data = PyNone
  /\ changes = PyNone
  /\ idx = 1
  /\ applied = 0
  /\ exitStatus = -1
  /\ raised = FALSE
  /\ exitAt = "none"
  /\ sent = NotSent
  /\ written = {}

\* sys.exit(code) at position pc
Exit(code) ==
  /\ pc' = "done"
  /\ exitStatus' = code
  /\ exitAt' = pc
  /\ raised' = FALSE

\* an uncaught exception: traceback and exit status 1
Raise ==
  /\ pc' = "done"
  /\ exitStatus' = 1
  /\ exitAt' = pc
  /\ raised' = TRUE

Goto(l) ==
  /\ pc' = l
  /\ UNCHANGED << exitStatus, exitAt, raised >>

\* lines 6-18 of both scripts
ResolvePolicy ==
  /\ pc = "policy"
  /\ ALLOW_MAX_BYTES' = ResolveMaxBytes(policy)
  /\ ALLOW_FILE_GLOBS' = ResolveGlobs(policy, env.INPUT_PATHS)
  /\ Goto("collect")
  /\ UNCHANGED << variant, env, policy, fsFiles, fsDirs, files, total_bytes, calls,
                  response, out_text, data, changes, idx, applied,
                  fsFiles0, fsDirs0, sent, written >>

\* ai_writer.py:38-41 / ai-writer.py:38
Collect ==
  /\ pc = "collect"
  /\ \E fl \in ReadFiles(ALLOW_FILE_GLOBS, fsFiles, fsDirs) :
       /\ files' = fl
       /\ IF variant = Underscore /\ fl = <<>> THEN Exit(0) ELSE Goto("budget")
  /\ UNCHANGED << variant, env, policy, fsFiles, fsDirs, ALLOW_MAX_BYTES,
                  ALLOW_FILE_GLOBS, total_bytes, calls, response, out_text, data,
                  changes, idx, applied, fsFiles0, fsDirs0, sent, written >>

\* ai_writer.py:43-46 / ai-writer.py:39-42
Budget ==
  /\ pc = "budget"
  /\ total_bytes' = TotalBytes(files, fsFiles, fsDirs)
  /\ IF BudgetExceeded(total_bytes', ALLOW_MAX_BYTES) THEN Exit(0) ELSE Goto("client")
  /\ UNCHANGED << variant, env, policy, fsFiles, fsDirs, ALLOW_MAX_BYTES,
                  ALLOW_FILE_GLOBS, files, calls, response, out_text, data,
                  changes, idx, applied, fsFiles0, fsDirs0, sent, written >>

\* ai_writer.py:69-73; ai-writer.py:65, where OpenAI() itself raises when
\* OPENAI_API_KEY is not set
Client ==
  /\ pc = "client"
  /\ IF variant = Underscore
     THEN IF HasApiKey(env) THEN Goto("request") ELSE Exit(1)
     ELSE IF env.OPENAI_API_KEY THEN Goto("request") ELSE Raise
  /\ UNCHANGED << variant, env, policy, fsFiles, fsDirs, ALLOW_MAX_BYTES,
                  ALLOW_FILE_GLOBS, files, total_bytes, calls, response, out_text,
                  data, changes, idx, applied, fsFiles0, fsDirs0, sent, written >>

\* ai_writer.py:85-92 / ai-writer.py:67-96: the service answers
Request ==
  /\ pc = "request"
  /\ calls' = calls + 1
  /\ \E m \in Sendable :
       /\ sent' = m
       /\ response' = ResponseOf(m)
  /\ Goto("decode")
  /\ UNCHANGED << variant, env, policy, fsFiles, fsDirs, ALLOW_MAX_BYTES,
                  ALLOW_FILE_GLOBS, files, total_bytes, out_text, data, changes,
                  idx, applied, fsFiles0, fsDirs0, written >>

\* the same call when the service or the network fails: the error propagates
RequestFails ==
  /\ pc = "request"
  /\ calls' = calls + 1
  /\ Raise
  /\ UNCHANGED << variant, env, policy, fsFiles, fsDirs, ALLOW_MAX_BYTES,
                  ALLOW_FILE_GLOBS, files, total_bytes, response, out_text, data,
                  changes, idx, applied, fsFiles0, fsDirs0, sent, written >>

\* ai_writer.py:113-135
DecodeUnderscore ==
  /\ pc = "decode"
  /\ variant = Underscore
  /\ out_text' = StripText(ToText(response))
  /\ data' = DecodeData(out_text')
  /\ IF ShapeRejected(data')
     THEN Exit(0) /\ changes' = PyNone
     ELSE IF data'.k # "dict"
          THEN Raise /\ changes' = PyNone
     ELSE /\ changes' = DictGet(data', K_changes, PyList(<<>>))
          /\ IF IsList(changes') THEN Goto("apply") ELSE Exit(0)
  /\ UNCHANGED << variant, env, policy, fsFiles, fsDirs, ALLOW_MAX_BYTES,
                  ALLOW_FILE_GLOBS, files, total_bytes, calls, response, idx,
                  applied, fsFiles0, fsDirs0, sent, written >>

\* ai-writer.py:99-106
DecodeDash ==
  /\ pc = "decode"
  /\ variant = Dash
  /\ out_text' = response.output_text
  /\ LET r == JsonLoads(out_text')
     IN /\ data' = r.val
        /\ IF ~r.ok
           THEN Exit(0) /\ changes' = PyNone
           ELSE IF r.val.k # "dict"
                THEN Raise /\ changes' = PyNone
           ELSE /\ changes' = DictGet(r.val, K_changes, PyList(<<>>))
                /\ Goto("apply")
  /\ UNCHANGED << variant, env, policy, fsFiles, fsDirs, ALLOW_MAX_BYTES,
                  ALLOW_FILE_GLOBS, files, total_bytes, calls, response, idx,
                  applied, fsFiles0, fsDirs0, sent, written >>

\* one iteration of the loop at ai_writer.py:145 / ai-writer.py:109
ApplyChange ==
  /\ pc = "apply"
  /\ Iterable(changes)
  /\ idx <= Len(IterItems(changes))
  /\ LET ch == IterItems(changes)[idx]
         r  == IF variant = Underscore
               THEN ApplyOneUnderscore(ch, ALLOW_FILE_GLOBS, fsFiles, fsDirs)
               ELSE ApplyOneDash(ch, ALLOW_FILE_GLOBS, policy, fsFiles, fsDirs)
     IN /\ fsFiles' = r.files
        /\ fsDirs' = r.dirs
        /\ applied' = IF r.res = "applied" THEN applied + 1 ELSE applied
        /\ written' = IF r.res = "applied"
                      THEN written \cup { << r.p, Locate(r.p, fsFiles, r.dirs).at,
                                             PathExists(r.p, fsFiles, fsDirs) >> }
                      ELSE written
        /\ IF r.res = "raise"
           THEN Raise /\ idx' = idx
           ELSE Goto("apply") /\ idx' = idx + 1
  /\ UNCHANGED << variant, env, policy, ALLOW_MAX_BYTES, ALLOW_FILE_GLOBS, files,
                  total_bytes, calls, response, out_text, data, changes,
                  fsFiles0, fsDirs0, sent >>

\* the loop is over: ai_writer.py:159 / ai-writer.py:124
ApplyDone ==
  /\ pc = "apply"
  /\ Iterable(changes)
  /\ idx > Len(IterItems(changes))
  /\ Exit(0)
  /\ UNCHANGED << variant, env, policy, fsFiles, fsDirs, ALLOW_MAX_BYTES,
                  ALLOW_FILE_GLOBS, files, total_bytes, calls, response, out_text,
                  data, changes, idx, applied, fsFiles0, fsDirs0, sent, written >>

\* "for ch in changes" over a value that cannot be iterated
ApplyNotIterable ==
  /\ pc = "apply"
  /\ ~Iterable(changes)
  /\ Raise
  /\ UNCHANGED << variant, env, policy, fsFiles, fsDirs, ALLOW_MAX_BYTES,
                  ALLOW_FILE_GLOBS, files, total_bytes, calls, response, out_text,
                  data, changes, idx, applied, fsFiles0, fsDirs0, sent, written >>

Next ==
  \/ ResolvePolicy
  \/ Collect
  \/ Budget
  \/ Client
  \/ Request
  \/ RequestFails
  \/ DecodeUnderscore
  \/ DecodeDash
  \/ ApplyChange
  \/ ApplyDone
  \/ ApplyNotIterable

Spec == Init /\ [][Next]_vars

(* ---------------------------------------------------------------------- *)
(* Properties                                                              *)
(* ---------------------------------------------------------------------- *)
Collected == pc \notin {"policy", "collect"}

\* the response has gone through the decoder
Decoded == pc = "apply" \/ exitAt \in {"decode", "apply"}

GlobSelects(parts) ==
  \E i \in 1..Len(ALLOW_FILE_GLOBS) : GlobMatch(ALLOW_FILE_GLOBS[i], parts)

WrittenPaths == { w[1] : w \in written }

\* C1: a change request whose path is selected by none of the configured
\* globs, under the collector's glob rule, never leads to a write: every
\* path written is selected by some configured glob.
AllowlistClosure == \A parts \in WrittenPaths : GlobSelects(parts)

\* C2: every path the applier writes passes the collector's filters: its
\* name does not start with the reserved prefix .ai- and its extension is
\* not in the binary denylist.
WriteScopeQualifies == \A parts \in WrittenPaths : Qualifies(parts)

CreatesForbidden ==
  policy.exists /\ policy.has_creates /\ ~policy.allow_creates

\* C3: with allow_creates false no file that was absent before the run
\* exists after it and every applied change hit an existing file; with
\* allow_creates true a created file is on disk under an existing parent.
CreationGating ==
  /\ CreatesForbidden =>
       /\ DOMAIN fsFiles = DOMAIN fsFiles0
       /\ \A w \in written : w[3]
  /\ ~CreatesForbidden =>
       \A w \in written : w[2] \in DOMAIN fsFiles /\ IsDirAt(PathParent(w[2]), fsDirs)

EffectiveMaxBytes ==
  IF policy.exists /\ policy.has_max THEN policy.max_bytes ELSE DefaultMaxBytes

CandidateBytes == TotalBytes(files, fsFiles0, fsDirs0)

\* C4: once the candidates are measured, a total strictly above the
\* effective max_bytes means the run has ended with no request issued and
\* the disk untouched; a request is only ever issued with the total at or
\* below max_bytes.
BudgetGate ==
  /\ (pc \notin {"policy", "collect", "budget"} /\ CandidateBytes > EffectiveMaxBytes) =>
       /\ pc = "done"
       /\ calls = 0
       /\ fsFiles = fsFiles0
       /\ fsDirs = fsDirs0
  /\ calls > 0 => CandidateBytes <= EffectiveMaxBytes

\* C4 witness: a run refused for its size, in the overlay's boundary case
BudgetRefused ==
  /\ pc = "done"
  /\ exitAt = "budget"
  /\ CandidateBytes = EffectiveMaxBytes + 1
  /\ calls = 0

WellFormed(ch) ==
  /\ ch.k = "dict"
  /\ K_path \in DOMAIN ch.v
  /\ K_content \in DOMAIN ch.v
  /\ ch.v[K_path].k = "str"
  /\ ch.v[K_content].k = "str"

WellFormedCount(l) == Cardinality({ i \in 1..Len(l) : WellFormed(l[i]) })

\* every well-formed entry is allowlisted and permitted by the creation policy
EntriesPermitted(l) ==
  \A i \in 1..Len(l) :
     WellFormed(l[i]) =>
       LET parts == PathParts(l[i].v[K_path].v)
       IN /\ AllowedByGlobs(parts, ALLOW_FILE_GLOBS)
          /\ (PathExists(parts, fsFiles0, fsDirs0) \/ ~CreatesForbidden)

\* C5: in ai_writer.py, a changes array of N well-formed, permitted entries
\* and M malformed ones (objects or not) is applied without an exception,
\* with applied = N and exit status 0.
PartialEntryRobust ==
  ( /\ variant = Underscore
    /\ pc = "done"
    /\ exitAt = "apply"
    /\ changes.k = "list"
    /\ EntriesPermitted(changes.v) ) =>
       /\ ~raised
       /\ exitStatus = 0
       /\ applied = WellFormedCount(changes.v)

\* the text is an object with a changes array
ValidObject(text) ==
  LET r == JsonLoads(text)
  IN /\ r.ok
     /\ r.val.k = "dict"
     /\ K_changes \in DOMAIN r.val.v
     /\ r.val.v[K_changes].k = "list"

\* C6: in ai_writer.py, the change list decoded from prose + J + prose is
\* the change list decoded from J alone, for every prose around a valid J.
DecoderTolerance ==
  (variant = Underscore /\ Decoded /\ ValidObject(sent.body)) =>
     changes = JsonLoads(sent.body).val.v[K_changes]

\* the raw text cannot be reduced to the expected shape
Unreducible(text) ==
  LET whole == JsonLoads(text)
      span  == BraceSpan(text)
      inner == JsonLoads(span.text)
      val   == IF whole.ok THEN whole.val ELSE inner.val
  IN \/ ~whole.ok /\ ~(span.found /\ inner.ok)
     \/ val.k # "dict"
     \/ K_changes \notin DOMAIN val.v
     \/ val.v[K_changes].k # "list"

\* C7: in ai_writer.py, a response that cannot be reduced to an object with
\* a changes array ends the run with exit status 0, no exception, and the
\* disk as it was.
DecodeFailureBenign ==
  (variant = Underscore /\ Decoded /\ Unreducible(out_text)) =>
     /\ pc = "done"
     /\ exitAt = "decode"
     /\ exitStatus = 0
     /\ ~raised
     /\ applied = 0
     /\ fsFiles = fsFiles0
     /\ fsDirs = fsDirs0

\* C7 witness: a parsed object whose changes field is not an array was rejected
DecodeFailureSeen ==
  /\ variant = Underscore
  /\ pc = "done"
  /\ exitAt = "decode"
  /\ exitStatus = 0
  /\ data.k = "dict"
  /\ K_changes \in DOMAIN data.v
  /\ Unreducible(out_text)

\* C8: when the collector returns no candidate, no request is ever issued
\* and nothing is written.
EmptySkipsProposer ==
  (Collected /\ files = <<>>) =>
     /\ calls = 0
     /\ fsFiles = fsFiles0
     /\ fsDirs = fsDirs0

\* C9: in ai_writer.py the exit status is 0 for changes applied, nothing
\* matched and decode failure, and non-zero for a budget overrun and for
\* missing credentials, both before any request.
ExitStatusMapping ==
  (variant = Underscore /\ pc = "done" /\ ~raised) =>
     /\ exitAt = "collect" => exitStatus = 0
     /\ exitAt = "decode" => exitStatus = 0
     /\ exitAt = "apply" => exitStatus = 0
     /\ exitAt = "budget" => (exitStatus # 0 /\ calls = 0)
     /\ exitAt = "client" => (exitStatus # 0 /\ calls = 0)

HasCR(text) == \E i \in 1..Len(text) : text[i] = "CR"

\* C10: the text of every applied change is on disk with LF line endings
\* only: it holds no CR, and tidying it again changes nothing.
LineEndingsNormalized ==
  \A w \in written :
     /\ ~HasCR(fsFiles[w[2]])
     /\ ReplaceCRLF(fsFiles[w[2]]) = fsFiles[w[2]]

====
